---- MODULE Spec2Model ----
(***************************************************************************)
(* Model of STSCredentialsProvider (src/src/lib.rs): a credentials cache   *)
(* guarded by a tokio RwLock, refreshed on demand through an STS           *)
(* AssumeRole call.  Each task runs get_credentials(); the steps of one    *)
(* call are split at its await points (read().await, write().await,        *)
(* load_credentials().await).                                              *)
(***************************************************************************)
EXTENDS Integers, Sequences, FiniteSets, TLC

\* ---- bounds of the model ----
MaxTasks == 2        \* concurrent callers of get_credentials
MaxTime == 1         \* SystemTime::now() ranges over 0..MaxTime
MaxExpiry == 1       \* expirations returned by STS range over 1..MaxExpiry
MaxTimeout == 1      \* cache_timeout is 0 or MaxTimeout
MaxCalls == 2        \* load_credentials invocations new calls are admitted for

Tasks == 1..MaxTasks

\* Option<..>: None is the empty sequence, Some(x) a one-element sequence
None == <<>>
Some(x) == <<x>>

\* Credentials::expiry() of a credential built with expiration None
NoExpiry == -1

\* the Credentials the provider builds (lines 79-85): the key material is
\* identified by the number of the AssumeRole call that produced it
Credentials(k, e) == [key |-> k, expiry |-> e]

\* aws_types::credentials::Result: Ok(Credentials) or Err(CredentialsError)
Ok(k, e) == [kind |-> "ok", key |-> k, expiry |-> e]
Err(kind, k) == [kind |-> kind, key |-> k, expiry |-> NoExpiry]
NoResult == [kind |-> "pending", key |-> 0, expiry |-> NoExpiry]
ErrorKinds == {"provider_error", "not_loaded"}
CredsOf(res) == Credentials(res.key, res.expiry)

VARIABLES
    cred_cache,     \* RwLock<Option<Credentials>>: the protected value
    cache_timeout,  \* seconds a token must still be valid to be returned
    config,         \* role_arn, external_id, source_identity, session_name, session_duration
    sent,           \* the parameters of the latest AssumeRole request
    readers,        \* tasks holding a read guard of cred_cache
    writer,         \* task holding the write guard of cred_cache, 0 if none
    waitq,          \* FIFO queue of tasks waiting in read().await / write().await
    now,            \* SystemTime::now()
    pc,             \* position of each task in get_credentials
    result,         \* what get_credentials returned to each task
    reqs,           \* per call: ids of the load_credentials invocations it made
    ncalls,         \* number of load_credentials invocations so far
    seen,           \* per call: content of cred_cache when the call was made, then
                    \* when stored_credentials read it
    seenLast,       \* per call: kind of the last assignment to *lock when it read the cache
    atLock,         \* per call: content of cred_cache when it got the write guard
    lastStore       \* the last assignment to *lock: by whom, and of what

vars == <<cred_cache, cache_timeout, config, sent, readers, writer, waitq, now,
          pc, result, reqs, ncalls, seen, seenLast, atLock, lastStore>>

\* ---- helpers on the wait queue ----
RECURSIVE Without(_, _)
Without(q, t) ==
    IF q = <<>> THEN <<>>
    ELSE IF Head(q) = t THEN Without(Tail(q), t)
    ELSE <<Head(q)>> \o Without(Tail(q), t)

\* calls that have been started and have not yet invoked load_credentials
Pending == {u \in Tasks : pc[u] \in {"read_wait", "reading", "write_wait"}}

\* ---- stored_credentials, lines 54-61 ----
\* the validity test of lines 55-57
IsValid_ge(c, t_now, timeout) ==
    LET min_expiry_time == t_now + timeout
        expiration == c.expiry
    IN  expiration >= min_expiry_time

IsValid_late(c, t_now, timeout) ==
    LET min_expiry_time == t_now + timeout
        expiration == c.expiry
    IN  expiration > min_expiry_time + 1

IsValid(c, t_now, timeout) ==
    LET min_expiry_time == t_now + timeout
        expiration == c.expiry
    IN  expiration > min_expiry_time

\* c.expiry().unwrap() of line 56 panics on a credential without expiration
UnwrapPanics(slot) == slot # None /\ slot[1].expiry = NoExpiry

\* the value stored_credentials returns (when it does not panic)
StoredValue_never(slot, t_now, timeout) == None

StoredValue(slot, t_now, timeout) ==
    IF slot # None /\ IsValid(slot[1], t_now, timeout)
    THEN Some(slot[1])
    ELSE None

\* ---- new, lines 29-46 ----
\* the arguments new() is called with in the model: every optional one
\* given and no margin, or none of them given and a margin of MaxTimeout
NewArgs ==
    { [role_arn |-> "role", external_id |-> Some("ext"),
       source_identity |-> Some("src"), session_name |-> Some("name"),
       session_duration |-> Some(900), cache_timeout |-> 0],
      [role_arn |-> "role", external_id |-> None, source_identity |-> None,
       session_name |-> None, session_duration |-> None,
       cache_timeout |-> MaxTimeout] }

\* lines 37-45: the fields of Self
new(args) ==
    [role_arn |-> args.role_arn,
     external_id |-> args.external_id,
     source_identity |-> args.source_identity,
     cred_cache |-> None,
     session_name |-> args.session_name,
     session_duration |-> args.session_duration,
     cache_timeout |-> args.cache_timeout]

\* the fields of Self that parametrize the AssumeRole request
RequestFields(self) ==
    [role_arn |-> self.role_arn,
     external_id |-> self.external_id,
     source_identity |-> self.source_identity,
     session_name |-> self.session_name,
     session_duration |-> self.session_duration]

NoRequest == [role_arn |-> "", role_session_name |-> None, external_id |-> None,
              source_identity |-> None, duration_seconds |-> None]

\* ---- load_credentials, lines 64-90 ----
\* lines 67-73: the AssumeRole request built from the fields of self
assume_role_swapped(self) ==
    [role_arn |-> self.role_arn,
     role_session_name |-> self.session_name,
     external_id |-> self.source_identity,
     source_identity |-> self.external_id,
     duration_seconds |-> self.session_duration]

assume_role(self) ==
    [role_arn |-> self.role_arn,
     role_session_name |-> self.session_name,
     external_id |-> self.external_id,
     source_identity |-> self.source_identity,
     duration_seconds |-> self.session_duration]

\* what send().await yields (line 74-75): an SdkError, or an AssumeRoleOutput
\* whose credentials field is None or Some with an optional expiration
SendFailed == [status |-> "failed", expiry |-> NoExpiry]
NoCredentials == [status |-> "empty", expiry |-> NoExpiry]
WithCredentials(e) == [status |-> "creds", expiry |-> e]
NoResponse == [status |-> "none", expiry |-> NoExpiry]

\* lines 76-89: the Result built from the answer to invocation number id
load_credentials_same_error(resp, id) ==
    IF resp.status = "creds" THEN Ok(id, resp.expiry)
    ELSE Err("provider_error", id)

load_credentials_no_expiry(resp, id) ==
    IF resp.status = "failed" THEN Err("provider_error", id)
    ELSE IF resp.status = "empty" THEN Err("not_loaded", id)
    ELSE Ok(id, NoExpiry)

load_credentials(resp, id) ==
    IF resp.status = "failed" THEN Err("provider_error", id)
    ELSE IF resp.status = "empty" THEN Err("not_loaded", id)
    ELSE Ok(id, resp.expiry)

\* ---- get_credentials, lines 103-106: the value assigned to *lock ----
Stored_keep(old, res) ==
    IF res.kind = "ok" THEN Some(CredsOf(res)) ELSE old

Stored_drop(old, res) ==
    IF res.kind = "ok" THEN old ELSE None

Stored_mix(old, res) ==
    IF res.kind = "ok"
    THEN IF old # None THEN Some(Credentials(res.key, old[1].expiry))
                       ELSE Some(CredsOf(res))
    ELSE None

Stored_default(old, res) ==
    IF res.kind = "ok" THEN Some(CredsOf(res))
                       ELSE Some(Credentials(res.key, MaxExpiry))

Stored(old, res) ==
    IF res.kind = "ok" THEN Some(CredsOf(res)) ELSE None

\* ---- get_credentials, line 107: the value returned after the store ----
Returned_fallback(old, res) ==
    IF res.kind # "ok" /\ old # None
    THEN Ok(old[1].key, old[1].expiry)
    ELSE res

Returned_cached(old, res) ==
    IF res.kind = "ok" /\ old # None
    THEN Ok(old[1].key, old[1].expiry)
    ELSE res

Returned(old, res) == res

Init ==
    /\ \E args \in NewArgs :
          LET self == new(args)
          IN  /\ cred_cache = self.cred_cache
              /\ cache_timeout = self.cache_timeout
              /\ config = RequestFields(self)
    /\ sent = NoRequest
    /\ readers = {}
    /\ writer = 0
    /\ waitq = <<>>
    /\ now = 0
    /\ pc = [t \in Tasks |-> "idle"]
    /\ result = [t \in Tasks |-> NoResult]
    /\ reqs = [t \in Tasks |-> <<>>]
    /\ ncalls = 0
    /\ seen = [t \in Tasks |-> None]
    /\ seenLast = [t \in Tasks |-> "none"]
    /\ atLock = [t \in Tasks |-> None]
    /\ lastStore = [by |-> 0, kind |-> "none", resp |-> NoResponse]

\* provide_credentials / get_credentials is called: the task reaches
\* self.cred_cache.read().await (line 53) and queues for a read guard.
\* Calls are admitted while MaxCalls covers an invocation for each call under
\* way, and one step beyond that while the cache holds a valid credential.
get_credentials(t) ==
    /\ pc[t] = "idle"
    /\ \/ ncalls + Cardinality(Pending) < MaxCalls
       \/ /\ ncalls + Cardinality(Pending) = MaxCalls
          /\ cred_cache # None /\ IsValid(cred_cache[1], now, cache_timeout)
    /\ pc' = [pc EXCEPT ![t] = "read_wait"]
    /\ waitq' = Append(waitq, t)
    /\ seen' = [seen EXCEPT ![t] = cred_cache]
    /\ UNCHANGED <<cred_cache, cache_timeout, config, sent, readers, writer, now, result,
                   reqs, ncalls, seenLast, atLock, lastStore>>

\* read guards handed out one at a time, as a Mutex would
read_acquired_alone(t) ==
    /\ pc[t] = "read_wait"
    /\ waitq # <<>> /\ Head(waitq) = t
    /\ writer = 0 /\ readers = {}
    /\ readers' = readers \cup {t}
    /\ waitq' = Tail(waitq)
    /\ pc' = [pc EXCEPT ![t] = "reading"]
    /\ UNCHANGED <<cred_cache, cache_timeout, config, sent, writer, now, result, reqs,
                   ncalls, seen, seenLast, atLock, lastStore>>

\* a read guard handed out while the write guard is out
read_acquired_anytime(t) ==
    /\ pc[t] = "read_wait"
    /\ waitq # <<>> /\ Head(waitq) = t
    /\ readers' = readers \cup {t}
    /\ waitq' = Tail(waitq)
    /\ pc' = [pc EXCEPT ![t] = "reading"]
    /\ UNCHANGED <<cred_cache, cache_timeout, config, sent, writer, now, result, reqs,
                   ncalls, seen, seenLast, atLock, lastStore>>

\* read().await completes (line 53): the task at the head of the queue gets
\* a read guard unless a write guard is out
read_acquired(t) ==
    /\ pc[t] = "read_wait"
    /\ waitq # <<>> /\ Head(waitq) = t
    /\ writer = 0
    /\ readers' = readers \cup {t}
    /\ waitq' = Tail(waitq)
    /\ pc' = [pc EXCEPT ![t] = "reading"]
    /\ UNCHANGED <<cred_cache, cache_timeout, config, sent, writer, now, result, reqs,
                   ncalls, seen, seenLast, atLock, lastStore>>

\* lines 54-62 and the match of lines 94-101: under the read guard the cache
\* is inspected; the guard is dropped on every way out.  A valid credential
\* is returned (lines 95-98); otherwise the task goes on to write().await
\* (line 101); a cached credential without expiration panics at line 56.
stored_credentials(t) ==
    /\ pc[t] = "reading"
    /\ readers' = readers \ {t}
    /\ seen' = [seen EXCEPT ![t] = cred_cache]
    /\ seenLast' = [seenLast EXCEPT ![t] = lastStore.kind]
    /\ IF UnwrapPanics(cred_cache)
       THEN /\ pc' = [pc EXCEPT ![t] = "panicked"]
            /\ UNCHANGED <<result, waitq>>
       ELSE LET v == StoredValue(cred_cache, now, cache_timeout)
            IN  IF v # None
                THEN /\ pc' = [pc EXCEPT ![t] = "done"]
                     /\ result' = [result EXCEPT ![t] = Ok(v[1].key, v[1].expiry)]
                     /\ UNCHANGED waitq
                ELSE /\ pc' = [pc EXCEPT ![t] = "write_wait"]
                     /\ waitq' = Append(waitq, t)
                     /\ UNCHANGED result
    /\ UNCHANGED <<cred_cache, cache_timeout, config, sent, writer, now, reqs, ncalls,
                   atLock, lastStore>>

\* a call that looks at the cache again under the write guard and returns
\* what another call has stored meanwhile instead of invoking load_credentials
write_acquired_recheck(t) ==
    /\ pc[t] = "write_wait"
    /\ waitq # <<>> /\ Head(waitq) = t
    /\ writer = 0 /\ readers = {}
    /\ waitq' = Tail(waitq)
    /\ IF cred_cache # None /\ IsValid(cred_cache[1], now, cache_timeout)
       THEN /\ pc' = [pc EXCEPT ![t] = "done"]
            /\ result' = [result EXCEPT ![t] =
                              Ok(cred_cache[1].key, cred_cache[1].expiry)]
            /\ UNCHANGED <<writer, ncalls, reqs, atLock, sent>>
       ELSE /\ writer' = t
            /\ sent' = assume_role(config)
            /\ ncalls' = ncalls + 1
            /\ reqs' = [reqs EXCEPT ![t] = Append(@, ncalls + 1)]
            /\ atLock' = [atLock EXCEPT ![t] = cred_cache]
            /\ pc' = [pc EXCEPT ![t] = "loading"]
            /\ UNCHANGED result
    /\ UNCHANGED <<cred_cache, cache_timeout, config, readers, now, seen, seenLast,
                   lastStore>>

\* a write guard handed out while read guards are still out
write_acquired_eager(t) ==
    /\ pc[t] = "write_wait"
    /\ waitq # <<>> /\ Head(waitq) = t
    /\ writer = 0
    /\ writer' = t
    /\ waitq' = Tail(waitq)
    /\ ncalls' = ncalls + 1
    /\ reqs' = [reqs EXCEPT ![t] = Append(@, ncalls + 1)]
    /\ atLock' = [atLock EXCEPT ![t] = cred_cache]
    /\ pc' = [pc EXCEPT ![t] = "loading"]
    /\ sent' = assume_role(config)
    /\ UNCHANGED <<cred_cache, cache_timeout, config, readers, now, result, seen,
                   seenLast, lastStore>>

\* write().await completes (line 101) and load_credentials is invoked
\* (line 102): the task at the head of the queue gets the write guard when
\* no guard is out
write_acquired(t) ==
    /\ pc[t] = "write_wait"
    /\ waitq # <<>> /\ Head(waitq) = t
    /\ writer = 0 /\ readers = {}
    /\ writer' = t
    /\ waitq' = Tail(waitq)
    /\ ncalls' = ncalls + 1
    /\ reqs' = [reqs EXCEPT ![t] = Append(@, ncalls + 1)]
    /\ atLock' = [atLock EXCEPT ![t] = cred_cache]
    /\ pc' = [pc EXCEPT ![t] = "loading"]
    /\ sent' = assume_role(config)
    /\ UNCHANGED <<cred_cache, cache_timeout, config, readers, now, result, seen,
                   seenLast, lastStore>>

\* lines 102-107 once STS has answered resp: load_credentials resolves to
\* new_creds, which is stored (or the cache cleared); the write guard is
\* dropped and new_creds returned
Complete(t, resp) ==
    LET new_creds == load_credentials(resp, reqs[t][Len(reqs[t])])
    IN  /\ pc[t] = "loading"
        /\ cred_cache' = Stored(cred_cache, new_creds)
        /\ lastStore' = [by |-> t, kind |-> new_creds.kind, resp |-> resp]
        /\ writer' = 0
        /\ result' = [result EXCEPT ![t] = Returned(cred_cache, new_creds)]
        /\ pc' = [pc EXCEPT ![t] = "done"]
        /\ UNCHANGED <<cache_timeout, config, sent, readers, waitq, now, reqs, ncalls, seen,
                       seenLast, atLock>>

\* load_credentials, lines 64-90: AssumeRole answers with credentials, whose
\* expiration is optional (line 83)
load_credentials_ok(t) ==
    /\ pc[t] = "loading"
    /\ \E e \in (1..MaxExpiry) \cup {NoExpiry} :
          Complete(t, WithCredentials(e))

\* load_credentials, lines 76 and 87-89: the call fails (provider_error) or
\* answers without credentials (not_loaded)
load_credentials_err(t) ==
    /\ pc[t] = "loading"
    /\ \E resp \in {SendFailed, NoCredentials} :
          Complete(t, resp)

\* a cancellation that would forget the write guard it holds
Cancel_leak(t) ==
    /\ pc[t] \in {"read_wait", "write_wait", "loading"}
    /\ waitq' = Without(waitq, t)
    /\ pc' = [pc EXCEPT ![t] = "cancelled"]
    /\ UNCHANGED <<cred_cache, cache_timeout, config, sent, readers, writer, now, result,
                   reqs, ncalls, seen, seenLast, atLock, lastStore>>

\* the future of get_credentials is dropped at one of its await points: a
\* queued request leaves the queue, a held write guard is dropped
Cancel(t) ==
    /\ pc[t] \in {"read_wait", "write_wait", "loading"}
    /\ waitq' = Without(waitq, t)
    /\ writer' = IF writer = t THEN 0 ELSE writer
    /\ pc' = [pc EXCEPT ![t] = "cancelled"]
    /\ UNCHANGED <<cred_cache, cache_timeout, config, sent, readers, now, result, reqs,
                   ncalls, seen, seenLast, atLock, lastStore>>

\* the caller has taken the outcome of its call and may call again
Return(t) ==
    /\ pc[t] \in {"done", "cancelled", "panicked"}
    /\ pc' = [pc EXCEPT ![t] = "idle"]
    /\ result' = [result EXCEPT ![t] = NoResult]
    /\ reqs' = [reqs EXCEPT ![t] = <<>>]
    /\ seen' = [seen EXCEPT ![t] = None]
    /\ seenLast' = [seenLast EXCEPT ![t] = "none"]
    /\ atLock' = [atLock EXCEPT ![t] = None]
    /\ UNCHANGED <<cred_cache, cache_timeout, config, sent, readers, writer, waitq, now,
                   ncalls, lastStore>>

\* the system clock advances
Tick ==
    /\ now < MaxTime
    /\ now' = now + 1
    /\ UNCHANGED <<cred_cache, cache_timeout, config, sent, readers, writer, waitq, pc,
                   result, reqs, ncalls, seen, seenLast, atLock, lastStore>>

Next ==
    \/ \E t \in Tasks : get_credentials(t)
    \/ \E t \in Tasks : read_acquired(t)
    \/ \E t \in Tasks : stored_credentials(t)
    \/ \E t \in Tasks : write_acquired(t)
    \/ \E t \in Tasks : load_credentials_ok(t)
    \/ \E t \in Tasks : load_credentials_err(t)
    \/ \E t \in Tasks : Cancel(t)
    \/ \E t \in Tasks : Return(t)
    \/ Tick

Spec == Init /\ [][Next]_vars

\* tokio wakes the waiters of the RwLock in FIFO order, a task that can run
\* is polled, and every AssumeRole call is answered
Fairness ==
    \A t \in Tasks :
        /\ WF_vars(read_acquired(t))
        /\ WF_vars(stored_credentials(t))
        /\ WF_vars(write_acquired(t))
        /\ WF_vars(load_credentials_ok(t) \/ load_credentials_err(t))

FairSpec == Spec /\ Fairness

TypeOK ==
    /\ cred_cache \in {None} \cup
          {Some(Credentials(k, e)) : k \in 1..(MaxCalls + MaxTasks),
                                     e \in (1..MaxExpiry) \cup {NoExpiry}}
    /\ writer \in 0..MaxTasks
    /\ readers \subseteq Tasks
    /\ now \in 0..MaxTime
    /\ ncalls \in 0..(MaxCalls + MaxTasks)

\* ---- vocabulary of the properties ----
\* the cached credential is usable: it exists, carries an expiration, and
\* the expiration lies strictly beyond now + cache_timeout
Fresh ==
    /\ cred_cache # None
    /\ cred_cache[1].expiry # NoExpiry
    /\ cred_cache[1].expiry > now + cache_timeout

\* the cache holds a credential without expiration
Expiryless == cred_cache # None /\ cred_cache[1].expiry = NoExpiry

\* the step in which task t inspects the cache under its read guard
CheckStep(t) == pc[t] = "reading" /\ pc'[t] # "reading"

\* the step in which the load_credentials call of task t resolves
ResolveStep(t) == pc[t] = "loading" /\ pc'[t] = "done"

\* the step in which task t gets the write guard and invokes load_credentials
InvokeStep(t) == pc[t] = "write_wait" /\ pc'[t] = "loading"

InQueue(q, t) == \E i \in 1..Len(q) : q[i] = t

\* C1: fast path.  A call that inspects the cache while it holds a credential
\* expiring strictly after now + cache_timeout returns a copy of exactly that
\* credential in that step, invokes load_credentials zero times, does not
\* queue for or take the write guard, and leaves the cache unchanged.
C1_FastPath ==
    [][\A t \in Tasks :
        (CheckStep(t) /\ Fresh) =>
            /\ pc'[t] = "done"
            /\ result'[t] = Ok(cred_cache[1].key, cred_cache[1].expiry)
            /\ reqs'[t] = <<>>
            /\ ncalls' = ncalls
            /\ writer' = writer /\ writer' # t
            /\ ~InQueue(waitq', t)
            /\ cred_cache' = cred_cache]_vars

C1_Witness ==
    \E t \in Tasks :
        /\ pc[t] = "done" /\ reqs[t] = <<>>
        /\ seen[t] # None /\ cred_cache = seen[t]
        /\ result[t] = Ok(seen[t][1].key, seen[t][1].expiry)
        /\ ncalls = 1

\* C2: slow path.  A call that inspects the cache while it is empty or holds
\* a credential with expiry <= now + cache_timeout goes on to the write
\* guard; it returns only after exactly one load_credentials invocation of
\* its own; when that invocation succeeds the cache holds the returned
\* credential at the moment the write guard is dropped, and the caller gets
\* that same credential.
C2_SlowPath ==
    [][\A t \in Tasks :
        /\ (CheckStep(t) /\ ~Fresh /\ ~Expiryless) =>
              (pc'[t] = "write_wait" /\ reqs'[t] = <<>> /\ InQueue(waitq', t))
        /\ (pc[t] = "write_wait" /\ pc'[t] # "write_wait") =>
              \/ pc'[t] = "cancelled"
              \/ (pc'[t] = "loading" /\ Len(reqs'[t]) = 1 /\ ncalls' = ncalls + 1)
        /\ (pc[t] = "loading" /\ pc'[t] # "loading") =>
              (pc'[t] \in {"done", "cancelled"} /\ ncalls' = ncalls)
        /\ ResolveStep(t) =>
              /\ Len(reqs'[t]) = 1
              /\ writer = t /\ writer' = 0
              /\ lastStore'.kind = "ok" =>
                    /\ result'[t].kind = "ok"
                    /\ result'[t].key = reqs[t][1]
                    /\ cred_cache' = Some(CredsOf(result'[t]))]_vars

C2_Witness ==
    \E t \in Tasks :
        /\ pc[t] = "done" /\ Len(reqs[t]) = 1
        /\ seen[t] # None /\ seen[t][1].expiry # NoExpiry
        /\ result[t].kind = "ok" /\ result[t].key # seen[t][1].key
        /\ cred_cache = Some(CredsOf(result[t]))

\* C3: when the load_credentials call of a task fails, the cache is empty at
\* the moment the task drops the write guard, whatever the cache held when
\* the guard was taken; the cache is empty as long as the last store was a
\* failure, and otherwise holds one whole credential of an invocation made.
C3_FailureClears ==
    /\ [](/\ lastStore.kind \in ErrorKinds => cred_cache = None
          /\ cred_cache # None =>
                /\ lastStore.kind = "ok"
                /\ cred_cache[1].key \in 1..ncalls
                /\ cred_cache[1].expiry \in (1..MaxExpiry) \cup {NoExpiry})
    /\ [][\A t \in Tasks :
            (ResolveStep(t) /\ lastStore'.kind \in ErrorKinds) =>
                (cred_cache' = None /\ writer' = 0)]_vars

\* the failing call took the guard over a fresh credential that another
\* call had stored after the failing call inspected the cache
C3_Witness ==
    \E t \in Tasks :
        /\ pc[t] = "done" /\ result[t].kind \in ErrorKinds
        /\ lastStore.by = t
        /\ atLock[t] # None /\ atLock[t] # seen[t]
        /\ atLock[t][1].expiry > now + cache_timeout
        /\ cred_cache = None

\* C4 as stated: while the cached credential is fresh, no call invokes
\* load_credentials, also when calls overlap.
C4_Original ==
    [][Fresh => ncalls' = ncalls]_vars

\* C4 amended: while the cached credential is fresh, no call that inspects
\* the cache invokes load_credentials: it returns in that step; the only
\* invocations made while the cache is fresh come from calls that inspected
\* the cache before that credential was stored.
C4_Amended ==
    [][\A t \in Tasks :
        /\ (CheckStep(t) /\ Fresh) => (pc'[t] = "done" /\ ncalls' = ncalls)
        /\ (InvokeStep(t) /\ Fresh) => seen[t] # cred_cache]_vars

\* two calls served from the same fresh credential after a single invocation
C4_Witness ==
    \E t, u \in Tasks :
        /\ t # u /\ pc[t] = "done" /\ pc[u] = "done"
        /\ reqs[t] = <<>> /\ reqs[u] = <<>>
        /\ result[t].kind = "ok" /\ result[t] = result[u]
        /\ cred_cache = Some(CredsOf(result[t]))
        /\ Fresh /\ ncalls = 1

\* C5: two calls that both inspected the cache while it was empty and whose
\* load_credentials both succeeded have both returned Ok, each with the
\* credential of its own invocation, and the cache holds in full the
\* credential of whichever of the two stored last.
C5_Race ==
    \A a, b \in Tasks :
        ( /\ a # b /\ pc[a] = "done" /\ pc[b] = "done"
          /\ seen[a] = None /\ seen[b] = None
          /\ Len(reqs[a]) = 1 /\ Len(reqs[b]) = 1
          /\ result[a].kind = "ok" /\ result[b].kind = "ok" ) =>
        /\ result[a].key = reqs[a][1] /\ result[b].key = reqs[b][1]
        /\ result[a].key # result[b].key
        /\ lastStore.by \in {a, b} =>
              cred_cache = Some(CredsOf(result[lastStore.by]))

C5_Witness ==
    \E a, b \in Tasks :
        /\ a # b /\ pc[a] = "done" /\ pc[b] = "done"
        /\ seen[a] = None /\ seen[b] = None
        /\ atLock[a] = None /\ atLock[b] # None
        /\ result[a].kind = "ok" /\ result[b].kind = "ok"
        /\ result[a].expiry # result[b].expiry
        /\ lastStore.by = b
        /\ cred_cache = Some(CredsOf(result[b]))

C7_NoExpiryIsStale ==
    [][\A t \in Tasks :
        (CheckStep(t) /\ Expiryless) => pc'[t] = "write_wait"]_vars

\* C8: a call that inspects the cache when the last store was the clearing
\* by a failed load_credentials finds it empty, goes on to the write guard
\* and makes a new invocation; if that succeeds the new credential is
\* returned and stored.
C8_NotPoisoned ==
    /\ [](\A t \in Tasks :
            (seenLast[t] \in ErrorKinds /\ pc[t] \in {"write_wait", "loading", "done"}) =>
                /\ seen[t] = None
                /\ pc[t] = "done" => Len(reqs[t]) = 1)
    /\ [][\A t \in Tasks :
            /\ (CheckStep(t) /\ lastStore.kind \in ErrorKinds) =>
                  pc'[t] = "write_wait"
            /\ (ResolveStep(t) /\ seenLast[t] \in ErrorKinds /\ lastStore'.kind = "ok") =>
                  /\ result'[t] = Ok(ncalls, result'[t].expiry)
                  /\ cred_cache' = Some(CredsOf(result'[t]))]_vars

C8_Witness ==
    \E t \in Tasks :
        /\ pc[t] = "done" /\ seenLast[t] \in ErrorKinds
        /\ result[t].kind = "ok" /\ result[t].key > 1
        /\ cred_cache = Some(CredsOf(result[t]))

\* C9: when the load_credentials call of a task fails, the task returns
\* that error: it has made exactly one invocation, makes no further one,
\* and does not return a credential, in particular not the one the cache
\* held before the refresh.
C9_ErrorPropagates ==
    [][\A t \in Tasks :
        (ResolveStep(t) /\ lastStore'.kind \in ErrorKinds) =>
            /\ result'[t] = Err(lastStore'.kind, reqs[t][1])
            /\ Len(reqs'[t]) = 1
            /\ ncalls' = ncalls]_vars

C9_Witness ==
    \E t \in Tasks :
        /\ pc[t] = "done" /\ result[t].kind = "provider_error"
        /\ Len(reqs[t]) = 1 /\ result[t].key = reqs[t][1]
        /\ atLock[t] # None /\ atLock[t] = seen[t]

\* C10: a call cancelled while it holds the write guard leaves the cache
\* with the content it had when the guard was taken and drops the guard; a
\* call cancelled while waiting for a guard leaves the cache unchanged; a
\* cancelled call holds no guard and waits for none.
C10_Cancellation ==
    /\ [](\A t \in Tasks :
            /\ pc[t] = "cancelled" => (writer # t /\ t \notin readers /\ ~InQueue(waitq, t))
            /\ pc[t] = "loading" => (writer = t /\ cred_cache = atLock[t]))
    /\ [][\A t \in Tasks :
            (pc[t] # "cancelled" /\ pc'[t] = "cancelled") =>
                /\ cred_cache' = cred_cache
                /\ pc[t] = "loading" => (cred_cache' = atLock[t] /\ writer' = 0)
                /\ readers' = readers]_vars

\* after a call was cancelled under the write guard, the cache is as it was
\* when that guard was taken and another call holds the write guard
C10_Witness ==
    \E t, u \in Tasks :
        /\ pc[t] = "cancelled" /\ Len(reqs[t]) = 1
        /\ pc[u] = "loading" /\ writer = u
        /\ reqs[u][1] > reqs[t][1]
        /\ cred_cache = atLock[t]

\* C11: when STS answers without credentials, the call returns the
\* not_loaded error of its own invocation (not provider_error, and no
\* credential), and the cache is empty when the write guard is dropped.
C11_NoCredentialReturned ==
    [][\A t \in Tasks :
        (ResolveStep(t) /\ lastStore'.resp = NoCredentials) =>
            /\ result'[t] = Err("not_loaded", reqs[t][1])
            /\ result'[t].kind # "provider_error" /\ result'[t].kind # "ok"
            /\ cred_cache' = None
            /\ writer' = 0]_vars

\* the answer without credentials came while the cache held a credential
C11_Witness ==
    \E t \in Tasks :
        /\ pc[t] = "done" /\ lastStore.by = t
        /\ lastStore.resp = NoCredentials
        /\ result[t].kind = "not_loaded"
        /\ atLock[t] # None
        /\ cred_cache = None

\* C12 as stated: every credential written to the cache is valid at the
\* moment of the write, expiry > now + cache_timeout.
C12_Original ==
    [][\A t \in Tasks :
        (ResolveStep(t) /\ cred_cache' # None) => Fresh']_vars

\* C12 amended: a credential is written to the cache only right after a
\* successful load_credentials, and it is the credential of that answer with
\* the expiration STS gave, unchecked: it is valid at the moment of the
\* write iff STS gave an expiration > now + cache_timeout; the cache holds
\* what the last answer with credentials carried.
C12_Amended ==
    /\ [](cred_cache # None =>
            /\ lastStore.resp.status = "creds"
            /\ cred_cache[1].expiry = lastStore.resp.expiry)
    /\ [][\A t \in Tasks :
            /\ (cred_cache' # cred_cache /\ cred_cache' # None) =>
                  \E u \in Tasks : ResolveStep(u) /\ lastStore'.resp.status = "creds"
            /\ ResolveStep(t) =>
                  (Fresh' <=> /\ lastStore'.resp.status = "creds"
                              /\ lastStore'.resp.expiry # NoExpiry
                              /\ lastStore'.resp.expiry > now + cache_timeout)]_vars

\* a credential that was already stale when it was written
C12_Witness ==
    \E t \in Tasks :
        /\ pc[t] = "done" /\ lastStore.by = t
        /\ result[t].kind = "ok" /\ result[t].expiry # NoExpiry
        /\ cred_cache = Some(CredsOf(result[t]))
        /\ cred_cache[1].expiry <= cache_timeout

\* C13: lock discipline.  At most one call holds the write guard, and then
\* no call holds a read guard; the cache changes only in a step of the call
\* holding the write guard, and is inspected only by a call holding a read
\* guard while no write guard is out; several calls may hold read guards.
C13_LockDiscipline ==
    /\ [](/\ Cardinality({t \in Tasks : pc[t] = "loading"}) <= 1
          /\ \A t \in Tasks : pc[t] = "loading" =>
                /\ writer = t
                /\ \A u \in Tasks : pc[u] # "reading"
          /\ readers = {t \in Tasks : pc[t] = "reading"}
          /\ writer # 0 => pc[writer] = "loading")
    /\ [][/\ cred_cache' # cred_cache =>
                \E t \in Tasks : pc[t] = "loading" /\ writer = t /\ pc'[t] = "done"
          /\ \A t \in Tasks :
                CheckStep(t) => (t \in readers /\ writer = 0 /\ seen'[t] = cred_cache)]_vars

\* two calls hold read guards at the same time
C13_Witness ==
    \E t, u \in Tasks :
        /\ t # u
        /\ pc[t] = "reading" /\ pc[u] = "reading"
        /\ {t, u} \subseteq readers
        /\ writer = 0

\* C14: a call does not wait for the write guard while holding a read guard;
\* a call that is over holds no guard; and, every AssumeRole call being
\* answered and the lock being fair, every call that is not cancelled
\* returns (Ok or Err).
C14_ReleaseAndProgress ==
    /\ [](\A t \in Tasks :
            /\ pc[t] = "write_wait" => t \notin readers
            /\ pc[t] \in {"idle", "done", "cancelled", "panicked"} =>
                  (t \notin readers /\ writer # t /\ ~InQueue(waitq, t)))
    /\ \A t \in Tasks :
          (pc[t] = "read_wait") ~> (pc[t] \in {"done", "cancelled"})

\* the calls that went past the inspection of the cache without a valid
\* credential and have invoked load_credentials
Refreshers == {t \in Tasks : pc[t] \in {"loading", "done"} /\ reqs[t] # <<>>}

\* C15: no deduplication.  Every call that found the cache empty or stale
\* makes its own load_credentials invocation, so N such calls make N distinct
\* invocations; the write guard once obtained, the invocation is made
\* without looking at the cache again, even if it holds a valid credential
\* by then; and each call whose invocation fails returns the error of its
\* own invocation.
C15_NoDeduplication ==
    /\ [](/\ \A t, u \in Refreshers :
                /\ Len(reqs[t]) = 1
                /\ t # u => reqs[t][1] # reqs[u][1]
          /\ Cardinality(Refreshers) <= ncalls
          /\ \A t \in Tasks :
                (pc[t] = "done" /\ reqs[t] # <<>>) => result[t].key = reqs[t][1]
          /\ \A t \in Tasks :
                (/\ pc[t] = "write_wait" /\ waitq # <<>> /\ Head(waitq) = t
                 /\ writer = 0 /\ readers = {}) => ENABLED write_acquired(t))
    /\ [][\A t \in Tasks :
            (pc[t] = "write_wait" /\ pc'[t] \notin {"write_wait", "cancelled"}) =>
                /\ pc'[t] = "loading"
                /\ reqs'[t] = <<ncalls + 1>> /\ ncalls' = ncalls + 1
                /\ seen'[t] = seen[t]]_vars

\* an outage: both calls found the cache empty and each got its own error
C15_Witness ==
    \E t, u \in Tasks :
        /\ t # u /\ pc[t] = "done" /\ pc[u] = "done"
        /\ seen[t] = None /\ seen[u] = None
        /\ result[t].kind = "provider_error" /\ result[u].kind = "provider_error"
        /\ result[t].key = 1 /\ result[u].key = 2
        /\ ncalls = 2

\* C17: load_credentials invocations are serialized: at most one is in
\* flight, and while one is in flight no call holds or can obtain a read
\* guard, so no call inspects the cache.
C17_Serialized ==
    /\ [](/\ Cardinality({t \in Tasks : pc[t] = "loading"}) <= 1
          /\ (\E t \in Tasks : pc[t] = "loading") =>
                /\ readers = {}
                /\ \A u \in Tasks : pc[u] # "reading"
                /\ \A u \in Tasks : ~ENABLED read_acquired(u)
                /\ \A u \in Tasks : ~ENABLED write_acquired(u))
    /\ [][\A u \in Tasks :
            CheckStep(u) => \A t \in Tasks : pc[t] # "loading"]_vars

\* a call waits for its read guard on a valid credential while the
\* invocation of another call is in flight
C17_Witness ==
    \E t, u \in Tasks :
        /\ pc[t] = "loading" /\ writer = t
        /\ pc[u] = "read_wait" /\ waitq # <<>> /\ Head(waitq) = u
        /\ Fresh

\* C18: a call that returns Ok returns either the credential it found valid
\* in the cache when it inspected it, or the credential of its own
\* load_credentials invocation, as STS gave it; never the credential of an
\* invocation of another call that it did not find valid, and never one that
\* no invocation produced.
C18_ReturnedOrigin ==
    /\ [](\A t \in Tasks :
            (pc[t] = "done" /\ result[t].kind = "ok") =>
                /\ result[t].key \in 1..ncalls
                /\ \/ reqs[t] = <<>> /\ seen[t] = Some(CredsOf(result[t]))
                   \/ Len(reqs[t]) = 1 /\ result[t].key = reqs[t][1])
    /\ [][\A t \in Tasks :
            (pc[t] # "done" /\ pc'[t] = "done" /\ result'[t].kind = "ok") =>
                \/ /\ pc[t] = "reading" /\ Fresh
                   /\ cred_cache = Some(CredsOf(result'[t]))
                \/ /\ pc[t] = "loading"
                   /\ result'[t].key = reqs[t][1]
                   /\ lastStore'.resp = WithCredentials(result'[t].expiry)]_vars

\* the call took the write guard over a valid credential of another call and
\* returned the credential of its own invocation
C18_Witness ==
    \E t \in Tasks :
        /\ pc[t] = "done" /\ result[t].kind = "ok"
        /\ Len(reqs[t]) = 1 /\ result[t].key = reqs[t][1]
        /\ atLock[t] # None /\ atLock[t] # seen[t]
        /\ atLock[t][1].expiry > now + cache_timeout
        /\ atLock[t][1].key # result[t].key

\* the call of task t was made while the cache held the valid credential it
\* still holds, and has not got its read guard yet
ArrivedOnFresh(t) ==
    /\ pc[t] = "read_wait"
    /\ seen[t] # None /\ seen[t] = cred_cache
    /\ Fresh

\* C16 as stated: a call made while the cache holds a valid credential never
\* waits while the load_credentials invocation of another call is in flight.
C16_Original ==
    \A t \in Tasks :
        ArrivedOnFresh(t) => \A u \in Tasks : pc[u] # "loading"

\* C16 amended: calls made while the cache holds a valid credential do not
\* wait for one another: as long as no call is waiting for or holding the
\* write guard, the call at the head of the queue gets its read guard at
\* once, whatever read guards are out, and returns the cached credential;
\* a call that holds the write guard while the cache is valid is one that
\* inspected the cache before that credential was stored.
C16_Amended ==
    /\ [](/\ (waitq # <<>> /\ \A u \in Tasks : pc[u] \notin {"write_wait", "loading"})
                => ENABLED read_acquired(Head(waitq))
          /\ \A u \in Tasks :
                (pc[u] = "loading" /\ Fresh) => seen[u] # cred_cache)
    /\ [][\A t \in Tasks :
            (CheckStep(t) /\ Fresh) =>
                (pc'[t] = "done" /\ cred_cache = Some(CredsOf(result'[t])))]_vars

\* a call made on a valid credential is about to get its read guard while
\* another call holds one
C16_Witness ==
    \E t, u \in Tasks :
        /\ ArrivedOnFresh(t) /\ Head(waitq) = t
        /\ pc[u] = "reading" /\ u \in readers
        /\ writer = 0

\* C19: cache_timeout and the request parameters keep the values given to
\* new() through every step; every AssumeRole request carries exactly the
\* role_arn, external_id, source_identity, session_name and session_duration
\* given to new(); and until the first invocation the cache is empty.
C19_ConfigImmutable ==
    /\ [](/\ \E args \in NewArgs :
                /\ cache_timeout = args.cache_timeout
                /\ config.role_arn = args.role_arn
                /\ config.external_id = args.external_id
                /\ config.source_identity = args.source_identity
                /\ config.session_name = args.session_name
                /\ config.session_duration = args.session_duration
          /\ ncalls = 0 => (cred_cache = None /\ sent = NoRequest)
          /\ ncalls > 0 =>
                /\ sent.role_arn = config.role_arn
                /\ sent.external_id = config.external_id
                /\ sent.source_identity = config.source_identity
                /\ sent.role_session_name = config.session_name
                /\ sent.duration_seconds = config.session_duration)
    /\ [][/\ cache_timeout' = cache_timeout
          /\ config' = config
          /\ sent' # sent => \E t \in Tasks : InvokeStep(t)
          /\ \A t \in Tasks : InvokeStep(t) =>
                /\ sent'.role_arn = config.role_arn
                /\ sent'.external_id = config.external_id
                /\ sent'.source_identity = config.source_identity
                /\ sent'.role_session_name = config.session_name
                /\ sent'.duration_seconds = config.session_duration]_vars

\* a second request was sent, with the optional parameters given to new()
C19_Witness ==
    /\ ncalls = 2
    /\ config.external_id = Some("ext") /\ config.source_identity = Some("src")
    /\ sent.external_id = Some("ext") /\ sent.source_identity = Some("src")
    /\ sent.role_session_name = Some("name") /\ sent.duration_seconds = Some(900)
    /\ \E t \in Tasks : pc[t] = "loading"
====
